---- MODULE Spec2Model ----
(***************************************************************************)
(* chroma-ls: the incremental line buffer (src/src/document.rs), the hex   *)
(* colour extractor (src/src/color.rs) and the language server's document  *)
(* table and handlers (src/src/main.rs).                                   *)
(*                                                                         *)
(* A text is a sequence of Unicode scalar values (integers).  A UTF-16     *)
(* code unit is an integer below 65536.  A colour is the four 8-bit        *)
(* channel numerators; the code reports each of them divided by 255.0.     *)
(***************************************************************************)
EXTENDS Integers, Sequences, FiniteSets, TLC

\* ------------------------------------------------------------------------
\* Bounds of the model
\* ------------------------------------------------------------------------
MaxFrags == 4        \* fragments concatenated into one extractor input
MaxIdx == 1          \* largest line index handed to the extractor directly
MaxEdits == 2        \* edits applied to one document
MaxChanges == 2      \* content changes carried by one did_change notification

\* ------------------------------------------------------------------------
\* Text encodings (Rust str: UTF-8 bytes; LSP columns: UTF-16 code units)
\* ------------------------------------------------------------------------
\* char::len_utf16
Utf16Len(c) == IF c >= 65536 THEN 2 ELSE 1

\* char::len_utf8
Utf8Len(c) == IF c < 128 THEN 1 ELSE IF c < 2048 THEN 2 ELSE IF c < 65536 THEN 3 ELSE 4

\* Variant of EncodeUtf16Char that counts one unit for every scalar
EncodeUtf16Char_Scalar(c) == << c >>

\* char::encode_utf16: one unit, or a high and a low surrogate
EncodeUtf16Char(c) ==
    IF c >= 65536
    THEN << 55296 + ((c - 65536) \div 1024), 56320 + ((c - 65536) % 1024) >>
    ELSE << c >>

RECURSIVE encode_utf16(_)
\* str::encode_utf16().collect()
encode_utf16(line) ==
    IF line = << >> THEN << >>
    ELSE EncodeUtf16Char(Head(line)) \o encode_utf16(Tail(line))

RECURSIVE Utf16Width(_)
\* number of UTF-16 code units of a text
Utf16Width(line) ==
    IF line = << >> THEN 0 ELSE Utf16Len(Head(line)) + Utf16Width(Tail(line))

RECURSIVE ByteLen(_)
\* str::len(): the number of UTF-8 bytes
ByteLen(line) ==
    IF line = << >> THEN 0 ELSE Utf8Len(Head(line)) + ByteLen(Tail(line))

\* char::from_u32(u).is_some(): a surrogate code unit is no scalar value
IsScalar(u) == ~(u >= 55296 /\ u <= 57343)

\* char::to_digit(16): the digit's value, or -1 for None
to_digit(u) ==
    IF u >= 48 /\ u <= 57 THEN u - 48
    ELSE IF u >= 65 /\ u <= 70 THEN u - 55
    ELSE IF u >= 97 /\ u <= 102 THEN u - 87
    ELSE -1

\* ------------------------------------------------------------------------
\* color.rs
\* ------------------------------------------------------------------------
\* x as u32.  A u32 is held as the signed 32-bit integer with the same bits
\* (the checker's integers are 32 bits wide), so the cast keeps the value and
\* a negative number stands for a line number of 2^31 or more.
AsU32(x) == x

\* digits is the 8-slot array, zero where no digit was parsed
Slot(digits, k) == IF k + 1 <= Len(digits) THEN digits[k + 1] ELSE 0

\* u8 arithmetic of one channel
Channel(digits, k) == (Slot(digits, k) * 16 + Slot(digits, k + 1)) % 256

\* Variant of color_from_digits that takes alpha from slots 6 and 7 for
\* every length
color_from_digits_AlphaSlots(digits, length) ==
    [ red   |-> Channel(digits, 0),
      green |-> Channel(digits, 2),
      blue  |-> Channel(digits, 4),
      alpha |-> Channel(digits, 6) ]

color_from_digits(digits, length) ==
    [ red   |-> Channel(digits, 0),
      green |-> Channel(digits, 2),
      blue  |-> Channel(digits, 4),
      alpha |-> IF length = 8 THEN Channel(digits, 6) ELSE 255 ]

RECURSIVE ScanDigits(_, _, _)
\* The inner loop over the 8 slots, from unit i (0-based) with the digits
\* parsed so far.  panic: char::from_u32(unit).unwrap() met a surrogate.
ScanDigits(chars, i, digits) ==
    IF Len(digits) = 8 \/ i >= Len(chars)
    THEN [panic |-> FALSE, digits |-> digits]
    ELSE IF ~IsScalar(chars[i + 1])
    THEN [panic |-> TRUE, digits |-> digits]
    ELSE IF to_digit(chars[i + 1]) = -1
    THEN [panic |-> FALSE, digits |-> digits]
    ELSE ScanDigits(chars, i + 1, Append(digits, to_digit(chars[i + 1])))

\* Variant of MakeColor whose range ends one column late
MakeColor_EndLate(line_idx, i, length, digits) ==
    [ sl |-> AsU32(line_idx),
      sc |-> AsU32(i) - (1 + length),
      el |-> AsU32(line_idx),
      ec |-> AsU32(i) + 1,
      color |-> color_from_digits(digits, length) ]

\* The ColorInformation pushed for a run of n parsed digits that ended with
\* the cursor at unit i (after the 7-digit fallback)
MakeColor(line_idx, i, length, digits) ==
    [ sl |-> AsU32(line_idx),
      sc |-> AsU32(i) - (1 + length),
      el |-> AsU32(line_idx),
      ec |-> AsU32(i),
      color |-> color_from_digits(digits, length) ]

RECURSIVE ScanLine(_, _, _, _)
\* The outer while loop from unit i (0-based) with the colours pushed so far
ScanLine(chars, line_idx, i, colors) ==
    IF i >= Len(chars) THEN [ok |-> TRUE, colors |-> colors]
    ELSE IF chars[i + 1] # 35 THEN ScanLine(chars, line_idx, i + 1, colors)
    ELSE LET run == ScanDigits(chars, i + 1, << >>)
             n == Len(run.digits)
             length == IF n = 7 THEN 6 ELSE n
             j == IF n = 7 THEN i + 1 + n - 1 ELSE i + 1 + n
         IN IF run.panic THEN [ok |-> FALSE, colors |-> << >>]
            ELSE IF n < 6 THEN ScanLine(chars, line_idx, j, colors)
            ELSE ScanLine(chars, line_idx, j,
                          Append(colors, MakeColor(line_idx, j, length, run.digits)))

\* Variant of parse_line_colors that starts scanning at unit line_idx
parse_line_colors_FromIdx(line, line_idx) ==
    ScanLine(encode_utf16(line), line_idx, line_idx, << >>)

\* parse_line_colors: ok = FALSE when the call panics
parse_line_colors(line, line_idx) == ScanLine(encode_utf16(line), line_idx, 0, << >>)

\* ------------------------------------------------------------------------
\* document.rs
\* ------------------------------------------------------------------------
\* Line::default()
DefaultLine == [text |-> << >>, colors |-> << >>]

\* Variant of StripCR that leaves the carriage return in the line
StripCR_Keep(seg) == seg

\* One item of str::lines(): the segment up to a line feed, less one
\* trailing carriage return
StripCR(seg) ==
    IF seg # << >> /\ seg[Len(seg)] = 13 THEN SubSeq(seg, 1, Len(seg) - 1) ELSE seg

RECURSIVE LinesFrom(_, _, _)
\* str::lines() from scalar k (1-based) with the current segment cur: a line
\* feed ends a line; a last segment with no line feed is yielded as it is,
\* unless it is empty
LinesFrom(s, k, cur) ==
    IF k > Len(s) THEN (IF cur = << >> THEN << >> ELSE << cur >>)
    ELSE IF s[k] = 10 THEN << StripCR(cur) >> \o LinesFrom(s, k + 1, << >>)
    ELSE LinesFrom(s, k + 1, Append(cur, s[k]))

\* s.lines().collect()
str_lines(s) == LinesFrom(s, 1, << >>)

\* s.ends_with('\n')
ends_with_lf(s) == s # << >> /\ s[Len(s)] = 10

RECURSIVE JoinFrom(_, _)
\* Display for Document: a line feed before every line but the first
JoinFrom(ls, i) ==
    IF i > Len(ls) THEN << >>
    ELSE (IF i > 1 THEN << 10 >> ELSE << >>) \o ls[i].text \o JoinFrom(ls, i + 1)

\* Document::to_string()
to_string(ls) == JoinFrom(ls, 1)

RECURSIVE ParseEach(_, _, _)
\* texts[k..] parsed with line indices first + k - 1 ...: the lines, and
\* whether every parse_line_colors call returned
ParseEach(texts, k, first) ==
    IF k > Len(texts) THEN [ok |-> TRUE, lines |-> << >>]
    ELSE LET r == parse_line_colors(texts[k], first + k - 1)
             rest == ParseEach(texts, k + 1, first)
         IN IF r.ok /\ rest.ok
            THEN [ok |-> TRUE,
                  lines |-> << [text |-> texts[k], colors |-> r.colors] >> \o rest.lines]
            ELSE [ok |-> FALSE, lines |-> << >>]

\* Document::from(s): ok = FALSE when the construction panics
from_str(s) == ParseEach(str_lines(s), 1, 0)

RECURSIVE ColorsFrom_Reversed(_, _)
\* Variant of ColorsFrom that puts the later lines' colours first
ColorsFrom_Reversed(ls, i) ==
    IF i > Len(ls) THEN << >> ELSE ColorsFrom_Reversed(ls, i + 1) \o ls[i].colors

RECURSIVE ColorsFrom(_, _)
\* self.lines.iter().flat_map(|line| line.colors.clone()) from line i on
ColorsFrom(ls, i) ==
    IF i > Len(ls) THEN << >> ELSE ls[i].colors \o ColorsFrom(ls, i + 1)

\* Document::get_colors()
get_colors(ls) == ColorsFrom(ls, 1)

RECURSIVE Utf16Walk(_, _, _, _, _)
\* The loop of utf16_to_byte_index at scalar k (1-based), byte offset
\* byte_idx, with count code units passed
Utf16Walk(line, k, byte_idx, count, utf16_idx) ==
    IF k > Len(line) THEN byte_idx
    ELSE IF count = utf16_idx THEN byte_idx
    ELSE Utf16Walk(line, k + 1, byte_idx + Utf8Len(line[k]),
                   count + Utf16Len(line[k]), utf16_idx)

\* Variant of utf16_to_byte_index that gives offset 0 for a column beyond
\* the end of the line
utf16_to_byte_index_Zero(line, utf16_idx) ==
    IF utf16_idx > Utf16Width(line) THEN 0 ELSE Utf16Walk(line, 1, 0, 0, utf16_idx)

\* utf16_to_byte_index: falls through to line.len() at the end of the line
utf16_to_byte_index(line, utf16_idx) == Utf16Walk(line, 1, 0, 0, utf16_idx)

RECURSIVE CharsBefore(_, _, _, _)
\* The number of scalars that end at or before byte offset b, and whether b
\* is a char boundary (a str slice panics when it is not)
CharsBefore(line, k, byte_idx, b) ==
    IF byte_idx = b THEN [ok |-> TRUE, n |-> k - 1]
    ELSE IF byte_idx > b \/ k > Len(line) THEN [ok |-> FALSE, n |-> k - 1]
    ELSE CharsBefore(line, k + 1, byte_idx + Utf8Len(line[k]), b)

Min(a, b) == IF a <= b THEN a ELSE b

\* &text[..b.min(text.len())]
SliceTo(line, b) ==
    LET c == CharsBefore(line, 1, 0, Min(b, ByteLen(line)))
    IN [ok |-> c.ok, text |-> SubSeq(line, 1, c.n)]

\* &text[b.min(text.len())..]
SliceFrom(line, b) ==
    LET c == CharsBefore(line, 1, 0, Min(b, ByteLen(line)))
    IN [ok |-> c.ok, text |-> SubSeq(line, c.n + 1, Len(line))]

RECURSIVE Pad_Short(_, _)
\* Variant of Pad with the loop test len < end_line
Pad_Short(ls, end_line) ==
    IF Len(ls) < end_line THEN Pad_Short(Append(ls, DefaultLine), end_line) ELSE ls

RECURSIVE Pad(_, _)
\* while self.lines.len() <= end_line { push(Line::default()) }
Pad(ls, end_line) ==
    IF Len(ls) <= end_line THEN Pad(Append(ls, DefaultLine), end_line) ELSE ls

\* The new lines' texts: change.text split, one more empty line after a final
\* line feed, prefix and suffix merged in
MergeLines(prefix, suffix, text) ==
    LET split == str_lines(text)
        cand == IF ends_with_lf(text) THEN Append(split, << >>) ELSE split
        n == Len(cand)
    IN IF n = 0 THEN << prefix \o suffix >>
       ELSE LET first == [cand EXCEPT ![1] = prefix \o cand[1]]
            IN [first EXCEPT ![n] = first[n] \o suffix]

\* Variant of ShiftLine with the sign of the shift reversed
ShiftLine_Neg(line, line_delta) == AsU32(line - line_delta)

\* (line as isize + line_delta) as u32
ShiftLine(line, line_delta) == AsU32(line + line_delta)

\* Variant of ShiftColor that renumbers the start line only
ShiftColor_StartOnly(c, line_delta) ==
    [c EXCEPT !.sl = AsU32(c.sl + line_delta)]

ShiftColor(c, line_delta) ==
    [c EXCEPT !.sl = ShiftLine(c.sl, line_delta), !.el = ShiftLine(c.el, line_delta)]

\* Variant of ShiftTail that starts one line late
ShiftTail_Late(ls, from, line_delta) ==
    [i \in 1..Len(ls) |->
        IF i > from + 1 /\ line_delta # 0
        THEN [ls[i] EXCEPT !.colors =
                 [k \in 1..Len(ls[i].colors) |->
                     [ls[i].colors[k] EXCEPT !.sl = AsU32(@ + line_delta),
                                             !.el = AsU32(@ + line_delta)]]]
        ELSE ls[i]]

\* The renumbering loop over self.lines[start_line + replaced_line_count..]
ShiftTail(ls, from, line_delta) ==
    [i \in 1..Len(ls) |->
        IF i > from /\ line_delta # 0
        THEN [ls[i] EXCEPT !.colors =
                 [k \in 1..Len(ls[i].colors) |-> ShiftColor(ls[i].colors[k], line_delta)]]
        ELSE ls[i]]

\* Variant of Splice over start_line..end_line, end_line kept
Splice_Exclusive(ls, start_line, end_line, new_lines) ==
    SubSeq(ls, 1, start_line) \o new_lines \o SubSeq(ls, end_line + 1, Len(ls))

\* self.lines.splice(start_line..=end_line, new_lines)
Splice(ls, start_line, end_line, new_lines) ==
    SubSeq(ls, 1, start_line) \o new_lines \o SubSeq(ls, end_line + 2, Len(ls))

\* Variant of edit_full that keeps the old lines before the new ones
edit_full_Append(ls, text) ==
    LET r == from_str(text)
    IN IF r.ok THEN [ok |-> TRUE, lines |-> ls \o r.lines] ELSE [ok |-> FALSE, lines |-> ls]

\* Document::edit with range = None
edit_full(ls, text) ==
    LET r == from_str(text)
    IN IF r.ok THEN r ELSE [ok |-> FALSE, lines |-> ls]

\* Document::edit with range = Some(range), for start_line <= end_line (the
\* only edits the model makes).  ok = FALSE when the call
\* panics (an index past the end of self.lines, a slice off a char boundary,
\* a panic of parse_line_colors); lines is then the document as the panic
\* leaves it, padded and not yet spliced.
edit_range(ls, start_line, start_col, end_line, end_col, text) ==
    LET padded == Pad(ls, end_line)
    IN IF start_line >= Len(padded) \/ end_line >= Len(padded)
       THEN [ok |-> FALSE, lines |-> padded]
       ELSE
    LET start_byte == utf16_to_byte_index(padded[start_line + 1].text, start_col)
        end_byte == utf16_to_byte_index(padded[end_line + 1].text, end_col)
        prefix == SliceTo(padded[start_line + 1].text, start_byte)
        suffix == SliceFrom(padded[end_line + 1].text, end_byte)
        new_lines == ParseEach(MergeLines(prefix.text, suffix.text, text), 1, start_line)
        replaced_line_count == end_line - start_line + 1
        line_delta == Len(new_lines.lines) - replaced_line_count
        shifted == ShiftTail(padded, start_line + replaced_line_count, line_delta)
    IN IF ~prefix.ok \/ ~suffix.ok \/ ~new_lines.ok
       THEN [ok |-> FALSE, lines |-> padded]
       ELSE [ok |-> TRUE, lines |-> Splice(shifted, start_line, end_line, new_lines.lines)]

\* ------------------------------------------------------------------------
\* main.rs
\* ------------------------------------------------------------------------
\* The character class [0-9A-Fa-f]
IsHex(c) == (c >= 48 /\ c <= 57) \/ (c >= 65 /\ c <= 70) \/ (c >= 97 /\ c <= 102)

RECURSIVE HexRun(_, _)
\* The number of consecutive hexadecimal digits of line from scalar p on
HexRun(line, p) ==
    IF p > Len(line) \/ ~IsHex(line[p]) THEN 0 ELSE 1 + HexRun(line, p + 1)

RECURSIVE FindIter(_, _)
\* color_regex().find_iter(line) from scalar p (1-based) on: the leftmost
\* matches of #([0-9A-Fa-f]{6,8}), each as long as it can be, none
\* overlapping; start and end are byte offsets into line
FindIter(line, p) ==
    IF p > Len(line) THEN << >>
    ELSE IF line[p] = 35 /\ HexRun(line, p + 1) >= 6
    THEN LET n == Min(HexRun(line, p + 1), 8)
             start == ByteLen(SubSeq(line, 1, p - 1))
         IN << [start |-> start, end |-> start + 1 + n] >> \o FindIter(line, p + 1 + n)
    ELSE FindIter(line, p + 1)

\* u8::from_str_radix(&hex[k..k + 2], 16) of a string of hexadecimal digits
HexByte(hex, k) == to_digit(hex[k + 1]) * 16 + to_digit(hex[k + 2])

\* hex_to_color: some = FALSE for None
hex_to_color(hex) ==
    IF Len(hex) = 6
    THEN [some |-> TRUE,
          color |-> [red |-> HexByte(hex, 0), green |-> HexByte(hex, 2),
                     blue |-> HexByte(hex, 4), alpha |-> 255]]
    ELSE IF Len(hex) = 8
    THEN [some |-> TRUE,
          color |-> [red |-> HexByte(hex, 0), green |-> HexByte(hex, 2),
                     blue |-> HexByte(hex, 4), alpha |-> HexByte(hex, 6)]]
    ELSE [some |-> FALSE, color |-> [red |-> 0, green |-> 0, blue |-> 0, alpha |-> 0]]

\* line_text[..b].chars().count(): the number of scalars before byte offset b
CharCount(line_text, b) == CharsBefore(line_text, 1, 0, b).n

RECURSIVE MatchColors(_, _, _, _)
\* The inner for loop of document_color over the matches of one line, from
\* match k on: a ColorInformation for every match hex_to_color accepts
MatchColors(line_text, line_idx, mats, k) ==
    IF k > Len(mats) THEN << >>
    ELSE LET mat == mats[k]
             start_char == CharCount(line_text, mat.start)
             end_char == CharCount(line_text, mat.end)
             hex == SubSeq(line_text, start_char + 2, end_char)
             c == hex_to_color(hex)
             rest == MatchColors(line_text, line_idx, mats, k + 1)
         IN IF c.some
            THEN << [sl |-> AsU32(line_idx), sc |-> AsU32(start_char),
                     el |-> AsU32(line_idx), ec |-> AsU32(end_char),
                     color |-> c.color] >> \o rest
            ELSE rest

RECURSIVE LineColors(_, _)
\* The outer for loop of document_color over text.lines().enumerate(), from
\* line k (1-based) on
LineColors(texts, k) ==
    IF k > Len(texts) THEN << >>
    ELSE MatchColors(texts[k], k - 1, FindIter(texts[k], 1), 1) \o LineColors(texts, k + 1)

\* An entry of Backend.documents: the String held for a URI, or none
NoEntry == [open |-> FALSE, text |-> << >>]
Entry(text) == [open |-> TRUE, text |-> text]

\* The handler takes the write lock: did_open, did_close, and did_change
\* with at least one content change
TakesWrite(req) ==
    \/ req.kind = "did_open"
    \/ req.kind = "did_close"
    \/ (req.kind = "did_change" /\ req.changes # << >>)

\* The entry the handler's insert or remove leaves for its URI
Written(req) ==
    IF req.kind = "did_open" THEN Entry(req.text)
    ELSE IF req.kind = "did_change" THEN Entry(req.changes[Len(req.changes)].text)
    ELSE NoEntry

\* RwLock::write().await returns: no writer and no reader holds the lock
CanWrite(l) == l.writer = "none" /\ l.readers = {}

\* Variant of CanRead that lets a reader in beside a writer
CanRead_Always(l) == TRUE

\* RwLock::read().await returns: no writer holds the lock
CanRead(l) == l.writer = "none"

\* What Backend::document_color returns for the entry docs.get(&uri)
document_color(entry) ==
    IF ~entry.open THEN << >> ELSE LineColors(str_lines(entry.text), 1)

\* ------------------------------------------------------------------------
\* Inputs
\* ------------------------------------------------------------------------
\* Scalars: 35 '#', 10 LF, 13 CR, 48..57 '0'..'9', 65..70 'A'..'F',
\* 97..102 'a'..'f', 120 'x', 8226 U+2022 (one UTF-16 unit, three bytes),
\* 128512 U+1F600 (two UTF-16 units, four bytes)
InitTexts ==
    { << >>,
      \* "#FF0000\n#00FF00\n#0000FF"
      << 35,70,70,48,48,48,48, 10, 35,48,48,70,70,48,48, 10, 35,48,48,48,48,70,70 >>,
      \* "\u{1F600}a\nFF0000\n\u{2022}#11223344"
      << 128512, 97, 10, 70,70,48,48,48,48, 10, 8226, 35,49,49,50,50,51,51,52,52 >>,
      \* "#\u{1F600}"
      << 35, 128512 >> }

FullTexts ==
    { << >>,
      \* "a\r\n#1234567\nb\r"
      << 97, 13, 10, 35,49,50,51,52,53,54,55, 10, 98, 13 >>,
      \* "#\u{1F600}"
      << 35, 128512 >> }

RangeTexts ==
    { << >>,
      << 35 >>,                   \* "#"
      \* "x\r\n#abcdef\n"
      << 120, 13, 10, 35,97,98,99,100,101,102, 10 >> }

\* Line numbers and UTF-16 columns a range edit names: column 1 is inside
\* the surrogate pair of U+1F600, column 7 is the end of "#FF0000" and is
\* beyond the end of the shorter lines
LineNos == {0, 1}
Cols == {0, 1, 7}

\* Line numbers of the whole-line deletions (a, 0)-(b, 0)
DeleteLineNos == {0, 1, 2}

Range(sl, sc, el, ec) ==
    [start_line |-> sl, start_col |-> sc, end_line |-> el, end_col |-> ec]

NoRange == Range(0, 0, 0, 0)

\* The range edits: every range with start <= end over LineNos and Cols with
\* every text, and the deletions of whole lines
RangeEdits ==
    { [range |-> Range(sl, sc, el, ec), text |-> text] :
        sl \in LineNos, sc \in Cols, el \in LineNos, ec \in Cols, text \in RangeTexts }
    \cup { [range |-> Range(a, 0, b, 0), text |-> << >>] :
             a \in DeleteLineNos, b \in DeleteLineNos }

\* Fragments an extractor input is put together from
Fragments ==
    { << 35 >>,                   \* "#"
      << 70,70,48,48,48,48 >>,    \* "FF0000"
      << 49,97 >>,                \* "1a"
      << 98 >>,                   \* "b"
      << 103 >>,                  \* "g"
      << 128512 >>,               \* U+1F600
      << 8226 >>,                 \* U+2022
      << 35,49,50 >> }            \* "#12"

\* Fragments a text to load is put together from
LoadFragments ==
    { << 10 >>,                       \* "\n"
      << 13 >>,                       \* "\r"
      << 97 >>,                       \* "a"
      << 35,70,70,48,48,48,48 >>,     \* "#FF0000"
      << 35 >>,                       \* "#"
      << 128512 >> }                  \* U+1F600

\* The document identities the server is told about
Uris == {"u", "v"}

\* The handler invocations that can be in flight together
Tasks == {"t1", "t2"}

\* Texts a client opens a document with
ServerTexts ==
    { << >>,
      \* "#FF0000\n#11223344"
      << 35,70,70,48,48,48,48, 10, 35,49,49,50,50,51,51,52,52 >>,
      \* "\u{1F600}#FF0000"
      << 128512, 35,70,70,48,48,48,48 >>,
      \* "#1234567"
      << 35,49,50,51,52,53,54,55 >> }

\* A TextDocumentContentChangeEvent: ranged = FALSE for range: None
FullChange(text) == [ranged |-> FALSE, range |-> NoRange, text |-> text]
RangeChange(range, text) == [ranged |-> TRUE, range |-> range, text |-> text]

ChangeEvents ==
    { FullChange(<< >>),
      FullChange(<< 35,70,70,48,48,48,48, 10, 35,49,49,50,50,51,51,52,52 >>),
      FullChange(<< 35,49,50,51,52,53,54,55 >>),
      RangeChange(Range(0, 1, 0, 3), << 65, 66 >>) }       \* (0,1)-(0,3) "AB"

\* The content_changes of a did_change notification: up to MaxChanges events
ChangeLists == UNION { [1..n -> ChangeEvents] : n \in 0..MaxChanges }

\* The requests and notifications of the server
OpenRequests ==
    { [kind |-> "did_open", uri |-> u, text |-> t, changes |-> << >>] :
        u \in Uris, t \in ServerTexts }
ChangeRequests ==
    { [kind |-> "did_change", uri |-> u, text |-> << >>, changes |-> cs] :
        u \in Uris, cs \in ChangeLists }
CloseRequests ==
    { [kind |-> "did_close", uri |-> u, text |-> << >>, changes |-> << >>] : u \in Uris }
ColorRequests ==
    { [kind |-> "document_color", uri |-> u, text |-> << >>, changes |-> << >>] : u \in Uris }
Requests == OpenRequests \cup ChangeRequests \cup CloseRequests \cup ColorRequests

\* The requests of the handlers that run together: one text to open, one
\* change list of each length up to 1
ConcurrentRequests ==
    { r \in Requests :
        /\ r.kind = "did_open" =>
              r.text = << 35,70,70,48,48,48,48, 10, 35,49,49,50,50,51,51,52,52 >>
        /\ r.kind = "did_change" =>
              r.changes \in { << >>, << FullChange(<< >>) >> } }

\* start <= end in document order
InOrder(r) ==
    \/ r.start_line < r.end_line
    \/ (r.start_line = r.end_line /\ r.start_col <= r.end_col)

\* ------------------------------------------------------------------------
\* State
\* ------------------------------------------------------------------------
VARIABLES
    lines,      \* Document.lines: a sequence of [text, colors]
    panicked,   \* the last call on the document panicked
    prev,       \* the lines before the last call
    op,         \* the last call and its arguments
    nEdits,     \* edits applied so far
    got,        \* the get_colors calls since the last edit, and what they returned
    pline,      \* the extractor's input line
    nFrags,     \* fragments pline is made of
    pidx,       \* the extractor's input line index
    pres,       \* parse_line_colors(pline, pidx)
    documents,  \* Backend.documents: the entry held for each URI
    lock,       \* the RwLock around documents: its writer and its readers
    tasks,      \* the handler invocation of each task, and where it is
    last        \* the handler that returned last: its request and its effect

docVars == << lines, panicked, prev, op, nEdits, got >>
parseVars == << pline, nFrags, pidx, pres >>
serverVars == << documents, lock, tasks, last >>
vars == << lines, panicked, prev, op, nEdits, got, pline, nFrags, pidx, pres,
          documents, lock, tasks, last >>

\* No get_colors call since the last edit
NoGot == [calls |-> "none", colors |-> << >>, before |-> << >>]

ParseInit ==
    /\ pline = << >>
    /\ nFrags = 0
    /\ pidx = 0
    /\ pres = parse_line_colors(<< >>, 0)

\* Document::from(text)
DocInit ==
    \E text \in InitTexts :
        LET r == from_str(text)
        IN /\ lines = r.lines
           /\ panicked = ~r.ok
           /\ prev = << >>
           /\ op = [kind |-> "from", range |-> NoRange, text |-> text]
           /\ nEdits = 0
           /\ got = NoGot

NoTask == "none"
NoRequest == [kind |-> "none", uri |-> "u", text |-> << >>, changes |-> << >>]

\* A task with no handler running
Idle == [pc |-> "idle", req |-> NoRequest, seen |-> NoEntry]

\* No handler has returned since the last request came in
NoLast == [req |-> NoRequest, before |-> NoEntry, after |-> NoEntry,
           result |-> << >>, moved |-> FALSE]

\* Backend { documents: RwLock::new(HashMap::new()) }
ServerInit ==
    /\ documents = [u \in Uris |-> NoEntry]
    /\ lock = [writer |-> NoTask, readers |-> {}]
    /\ tasks = [t \in Tasks |-> Idle]
    /\ last = NoLast

Init == DocInit /\ ParseInit /\ ServerInit

\* Document::edit(&TextDocumentContentChangeEvent { range: None, text })
EditFull(text) ==
    /\ ~panicked
    /\ nEdits < MaxEdits
    /\ \E r \in {edit_full(lines, text)} :
          /\ lines' = r.lines
          /\ panicked' = ~r.ok
    /\ prev' = lines
    /\ op' = [kind |-> "full", range |-> NoRange, text |-> text]
    /\ nEdits' = nEdits + 1
    /\ got' = NoGot
    /\ UNCHANGED parseVars
    /\ UNCHANGED serverVars

\* Document::edit(&TextDocumentContentChangeEvent { range: Some(range), text })
EditRange(range, text) ==
    /\ ~panicked
    /\ nEdits < MaxEdits
    /\ InOrder(range)
    /\ \E r \in {edit_range(lines, range.start_line, range.start_col,
                            range.end_line, range.end_col, text)} :
          /\ lines' = r.lines
          /\ panicked' = ~r.ok
    /\ prev' = lines
    /\ op' = [kind |-> "range", range |-> range, text |-> text]
    /\ nEdits' = nEdits + 1
    /\ got' = NoGot
    /\ UNCHANGED parseVars
    /\ UNCHANGED serverVars

\* Document::get_colors(&self): the first call since the last edit, or a
\* further one
GetColors ==
    /\ ~panicked
    /\ got' = [calls |-> IF got.calls = "none" THEN "once" ELSE "again",
               colors |-> get_colors(lines),
               before |-> lines]
    /\ UNCHANGED << lines, panicked, prev, op, nEdits >>
    /\ UNCHANGED parseVars
    /\ UNCHANGED serverVars

\* parse_line_colors(line, line_idx) on the line extended by one fragment
Parse(frag, line_idx) ==
    /\ nFrags < MaxFrags
    /\ pline' = pline \o frag
    /\ nFrags' = nFrags + 1
    /\ pidx' = line_idx
    /\ pres' = parse_line_colors(pline', line_idx)
    /\ UNCHANGED docVars
    /\ UNCHANGED serverVars

\* Document::from(text) on the text extended by one fragment
Load(frag) ==
    /\ nFrags < MaxFrags
    /\ pline' = pline \o frag
    /\ nFrags' = nFrags + 1
    /\ \E r \in {from_str(pline')} :
          /\ lines' = r.lines
          /\ panicked' = ~r.ok
    /\ prev' = << >>
    /\ op' = [kind |-> "from", range |-> NoRange, text |-> pline']
    /\ nEdits' = 0
    /\ got' = NoGot
    /\ UNCHANGED << pidx, pres >>
    /\ UNCHANGED serverVars

\* A request or notification arrives and its handler starts on task t
Receive(t, req) ==
    /\ tasks[t].pc = "idle"
    /\ tasks' = [tasks EXCEPT ![t] = [pc |-> "called", req |-> req, seen |-> NoEntry]]
    /\ last' = NoLast
    /\ UNCHANGED << documents, lock >>
    /\ UNCHANGED << docVars, parseVars >>

\* did_change with no content change: content_changes.last() is None and
\* the handler returns
NoChange(t) ==
    /\ tasks[t].pc = "called"
    /\ tasks[t].req.kind = "did_change" /\ tasks[t].req.changes = << >>
    /\ tasks' = [tasks EXCEPT ![t] = Idle]
    /\ last' = [req |-> tasks[t].req, before |-> documents[tasks[t].req.uri],
                after |-> documents[tasks[t].req.uri], result |-> << >>, moved |-> FALSE]
    /\ UNCHANGED << documents, lock >>
    /\ UNCHANGED << docVars, parseVars >>

\* self.documents.write().await in did_open, did_change, did_close
AcquireWrite(t) ==
    /\ tasks[t].pc = "called"
    /\ TakesWrite(tasks[t].req)
    /\ CanWrite(lock)
    /\ lock' = [lock EXCEPT !.writer = t]
    /\ tasks' = [tasks EXCEPT ![t].pc = "writing"]
    /\ UNCHANGED << documents, last >>
    /\ UNCHANGED << docVars, parseVars >>

\* .insert(uri, text) or .remove(&uri), the write guard dropped, the
\* handler returns
Write(t) ==
    /\ tasks[t].pc = "writing"
    /\ documents' = [documents EXCEPT ![tasks[t].req.uri] = Written(tasks[t].req)]
    /\ lock' = [lock EXCEPT !.writer = NoTask]
    /\ tasks' = [tasks EXCEPT ![t] = Idle]
    /\ last' = [req |-> tasks[t].req, before |-> documents[tasks[t].req.uri],
                after |-> documents'[tasks[t].req.uri], result |-> << >>, moved |-> FALSE]
    /\ UNCHANGED << docVars, parseVars >>

\* let docs = self.documents.read().await; docs.get(&uri) in document_color
AcquireRead(t) ==
    /\ tasks[t].pc = "called"
    /\ tasks[t].req.kind = "document_color"
    /\ CanRead(lock)
    /\ lock' = [lock EXCEPT !.readers = @ \cup {t}]
    /\ tasks' = [tasks EXCEPT ![t].pc = "reading", ![t].seen = documents[tasks[t].req.uri]]
    /\ UNCHANGED << documents, last >>
    /\ UNCHANGED << docVars, parseVars >>

\* Variant of Read that leaves an empty entry where it found none
Read_Insert(t) ==
    /\ tasks[t].pc = "reading"
    /\ lock' = [lock EXCEPT !.readers = @ \ {t}]
    /\ tasks' = [tasks EXCEPT ![t] = Idle]
    /\ documents' = [documents EXCEPT ![tasks[t].req.uri] =
                         IF @.open THEN @ ELSE Entry(<< >>)]
    /\ last' = [req |-> tasks[t].req, before |-> tasks[t].seen,
                after |-> documents'[tasks[t].req.uri],
                result |-> document_color(tasks[t].seen),
                moved |-> (documents[tasks[t].req.uri] # tasks[t].seen
                           \/ lock.writer # NoTask)]
    /\ UNCHANGED << docVars, parseVars >>

\* The loops of document_color over the text it got, the read guard
\* dropped, the handler returns.  moved: the entry is no longer the one the
\* handler got, or a writer holds the lock.
Read(t) ==
    /\ tasks[t].pc = "reading"
    /\ lock' = [lock EXCEPT !.readers = @ \ {t}]
    /\ tasks' = [tasks EXCEPT ![t] = Idle]
    /\ last' = [req |-> tasks[t].req, before |-> tasks[t].seen,
                after |-> documents[tasks[t].req.uri],
                result |-> document_color(tasks[t].seen),
                moved |-> (documents[tasks[t].req.uri] # tasks[t].seen
                           \/ lock.writer # NoTask)]
    /\ UNCHANGED documents
    /\ UNCHANGED << docVars, parseVars >>

\* The steps of the handler running on task t
Handle(t) ==
    NoChange(t) \/ AcquireWrite(t) \/ Write(t) \/ AcquireRead(t) \/ Read(t)

DocNext ==
    \/ \E text \in FullTexts : EditFull(text)
    \/ \E e \in RangeEdits : EditRange(e.range, e.text)

ParseNext == \E frag \in Fragments, line_idx \in 0..MaxIdx : Parse(frag, line_idx)

Next == DocNext

\* The document under edits
Spec == Init /\ [][Next]_vars

\* The extractor alone, beside the empty document
InitParse == Init /\ op.text = << >>

SpecParse == InitParse /\ [][ParseNext]_vars

\* The document under edits (one fewer than in Spec) and get_colors calls
ReadNext ==
    \/ (nEdits < MaxEdits - 1 /\ DocNext)
    \/ GetColors

SpecRead == Init /\ [][ReadNext]_vars

\* The server with one handler at a time
ServerNext ==
    \/ \E req \in Requests : Receive("t1", req)
    \/ Handle("t1")

SpecServer == InitParse /\ [][ServerNext]_vars

\* The server with the handlers of Tasks running together
ConcurrentNext ==
    \E t \in Tasks :
        \/ \E req \in ConcurrentRequests : Receive(t, req)
        \/ Handle(t)

SpecConcurrent == InitParse /\ [][ConcurrentNext]_vars

LoadNext == \E frag \in LoadFragments : Load(frag)

\* Document::from alone, on every text of up to MaxFrags fragments
SpecLoad == InitParse /\ [][LoadNext]_vars

\* ------------------------------------------------------------------------
\* Properties of the document (specification Spec)
\* ------------------------------------------------------------------------
TextsOf(ls) == [i \in 1..Len(ls) |-> ls[i].text]

\* The last call was a range edit
RangeEdited == op.kind = "range"

\* The document the last range edit met, extended with empty lines up to
\* index end_line
Extended(ls, end_line) ==
    ls \o [i \in 1..(IF end_line + 1 > Len(ls) THEN end_line + 1 - Len(ls) ELSE 0)
              |-> DefaultLine]

\* inserted_count - replaced_count of the last range edit, read off the
\* number of lines before and after
Growth == Len(lines) - Len(Extended(prev, op.range.end_line))

\* C1: cache invariant.  After Document::from and any sequence of edits,
\* every line's cached colours are exactly what parse_line_colors returns
\* for that line's text and index.
C1_CacheInvariant ==
    \A i \in 1..Len(lines) :
        LET r == parse_line_colors(lines[i].text, i - 1)
        IN r.ok /\ lines[i].colors = r.colors

\* C1 witness: two edits made, the last a range edit that changed the number
\* of lines above a line that carries a colour.
C1_Witness ==
    /\ nEdits >= 2 /\ RangeEdited /\ ~panicked
    /\ Growth # 0
    /\ \E i \in (op.range.end_line + 2)..Len(prev) : prev[i].colors # << >>

\* C2: edit/read consistency.  get_colors of the edited document equals
\* get_colors of a fresh document built from the edited document's text.
C2_EditReadConsistency ==
    LET fresh == from_str(to_string(lines))
    IN fresh.ok /\ get_colors(lines) = get_colors(fresh.lines)

\* C2 witness: an edited document with colours whose text does not split
\* back into the lines it holds (a trailing empty line, or a carriage return
\* before a line feed).
C2_Witness ==
    /\ nEdits >= 1 /\ ~panicked
    /\ get_colors(lines) # << >>
    /\ TextsOf(from_str(to_string(lines)).lines) # TextsOf(lines)

\* The text of a line before UTF-16 column col: the scalars before the first
\* scalar whose cumulative UTF-16 count reaches col
RECURSIVE ScalarsBefore(_, _, _, _)
ScalarsBefore(line, k, count, col) ==
    IF k > Len(line) \/ count >= col THEN k - 1
    ELSE ScalarsBefore(line, k + 1, count + Utf16Len(line[k]), col)

TextBefore(line, col) == SubSeq(line, 1, ScalarsBefore(line, 1, 0, col))
TextFrom(line, col) == SubSeq(line, ScalarsBefore(line, 1, 0, col) + 1, Len(line))

\* The line texts a range edit is specified to leave:
\* L[0..start_line) ++ M ++ L(end_line..]
RangeReplaceTexts(L, r, text) ==
    LET Lp == TextsOf(Extended(L, r.end_line))
        prefix == TextBefore(Lp[r.start_line + 1], r.start_col)
        suffix == TextFrom(Lp[r.end_line + 1], r.end_col)
        split == str_lines(text)
        cand == IF text # << >> /\ text[Len(text)] = 10 THEN split \o << << >> >> ELSE split
        M == IF cand = << >> THEN << prefix \o suffix >>
             ELSE IF Len(cand) = 1 THEN << prefix \o cand[1] \o suffix >>
             ELSE << prefix \o cand[1] >> \o SubSeq(cand, 2, Len(cand) - 1)
                  \o << cand[Len(cand)] \o suffix >>
    IN SubSeq(Lp, 1, r.start_line) \o M \o SubSeq(Lp, r.end_line + 2, Len(Lp))

\* C3: range-replace result.  A range edit that returns leaves the lines
\* L[0..start_line) ++ M ++ L(end_line..], M being new_text split into lines
\* with the text before start_col prepended and the text from end_col
\* appended.
C3_RangeReplaceResult ==
    (RangeEdited /\ ~panicked)
        => TextsOf(lines) = RangeReplaceTexts(prev, op.range, op.text)

\* The colour c moved by k lines, columns and colour value kept
Moved(c, k) == [c EXCEPT !.sl = c.sl + k, !.el = c.el + k]

\* c occurs in the sequence cs
Occurs(c, cs) == \E j \in 1..Len(cs) : cs[j] = c

\* C4: line-shift invariant.  When a range edit grows the edited span by
\* k > 0 lines, every colour cached on a line after end_line is in
\* get_colors afterwards with start and end line increased by k and columns
\* and value unchanged (on the line k further down), and the colours of the
\* lines before start_line are unchanged.
C4_LineShiftInsertion ==
    (RangeEdited /\ Growth > 0)
        => /\ \A i \in (op.range.end_line + 2)..Len(prev) :
                /\ Len(lines[i + Growth].colors) = Len(prev[i].colors)
                /\ \A j \in 1..Len(prev[i].colors) :
                      /\ lines[i + Growth].colors[j] = Moved(prev[i].colors[j], Growth)
                      /\ Occurs(Moved(prev[i].colors[j], Growth), get_colors(lines))
           /\ \A i \in 1..op.range.start_line :
                i <= Len(prev) => lines[i].colors = prev[i].colors

\* C4 witness: a range edit grew the span and a line after end_line carried
\* a colour.
C4_Witness ==
    /\ RangeEdited /\ Growth > 0
    /\ \E i \in (op.range.end_line + 2)..Len(prev) : prev[i].colors # << >>
    /\ \E i \in 1..op.range.start_line : i <= Len(prev) /\ prev[i].colors # << >>

\* The last call deleted the whole lines a..b-1: empty text from (a, 0) to
\* (b, 0), a < b both lines of the document
LinesDeleted ==
    /\ RangeEdited
    /\ op.text = << >>
    /\ op.range.start_col = 0 /\ op.range.end_col = 0
    /\ op.range.start_line < op.range.end_line
    /\ op.range.end_line < Len(prev)

\* C5: line deletion.  Deleting lines a..b-1 leaves the lines before a and
\* from b on: their texts, and their colours with the lines from b on
\* renumbered by -(b - a); get_colors holds nothing else.
C5_LineDeletion ==
    LinesDeleted =>
        LET a == op.range.start_line
            b == op.range.end_line
            kept == SubSeq(prev, 1, a)
            moved == [i \in 1..(Len(prev) - b) |->
                        [text |-> prev[b + i].text,
                         colors |-> [j \in 1..Len(prev[b + i].colors) |->
                                        Moved(prev[b + i].colors[j], a - b)]]]
        IN /\ ~panicked
           /\ lines = kept \o moved
           /\ get_colors(lines) = get_colors(kept) \o get_colors(moved)
           /\ to_string(lines) = to_string(SubSeq(prev, 1, a) \o SubSeq(prev, b + 1, Len(prev)))

\* C5 witness: whole lines deleted, among them one with a colour, below a
\* coloured line and above a coloured line.
C5_Witness ==
    /\ LinesDeleted
    /\ \E i \in (op.range.start_line + 1)..op.range.end_line : prev[i].colors # << >>
    /\ \E i \in (op.range.end_line + 1)..Len(prev) : prev[i].colors # << >>
    /\ Len(get_colors(lines)) < Len(get_colors(prev))

\* C6: totality of edit.  No edit (full, or range with start <= end) panics.
C6_EditTotal == (op.kind = "full" \/ op.kind = "range") => ~panicked

\* The last call was a range edit whose end_line was beyond the last line
PaddedEdit == RangeEdited /\ op.range.end_line >= Len(prev)

\* C7: padding.  A range edit with end_line beyond the last line gives what
\* the same edit gives on the document extended with empty lines up to
\* end_line (same lines, same colours, same outcome), its new lines are the
\* last lines of the result, and the lines between the old end and
\* start_line are empty lines.
C7_Padding ==
    PaddedEdit =>
        LET ext == Extended(prev, op.range.end_line)
            r == edit_range(ext, op.range.start_line, op.range.start_col,
                            op.range.end_line, op.range.end_col, op.text)
        IN /\ lines = r.lines
           /\ panicked = ~r.ok
           /\ ~panicked =>
                /\ Len(lines) = Len(RangeReplaceTexts(prev, op.range, op.text))
                /\ \A i \in (Len(prev) + 1)..op.range.start_line : lines[i] = DefaultLine

\* C7 witness: a range edit that started beyond the old last line, with a
\* line in between that it did not cover, and that produced a colour.
C7_Witness ==
    /\ PaddedEdit /\ ~panicked
    /\ op.range.start_line > Len(prev)
    /\ nEdits >= 2
    /\ get_colors(lines) # << >>

\* The (line text, UTF-16 column) pairs the last range edit handed to
\* utf16_to_byte_index
Translated ==
    LET ext == Extended(prev, op.range.end_line)
    IN { << ext[op.range.start_line + 1].text, op.range.start_col >>,
         << ext[op.range.end_line + 1].text, op.range.end_col >> }

\* C12: offset translation.  For a column c not beyond the line's UTF-16
\* length, a column between the two units of a supplementary-plane scalar
\* included, utf16_to_byte_index returns the byte offset of the first scalar
\* whose cumulative UTF-16 count reaches c.
C12_OffsetTranslation ==
    RangeEdited =>
        \A t \in Translated :
            t[2] <= Utf16Width(t[1])
                => utf16_to_byte_index(t[1], t[2]) = ByteLen(TextBefore(t[1], t[2]))

\* The column col clamped to the UTF-16 length of line
Clamped(line, col) == Min(col, Utf16Width(line))

\* The last range edit named a column beyond the end of its line
BeyondEnd == RangeEdited /\ \E t \in Translated : t[2] > Utf16Width(t[1])

\* C13: column clamping.  For a column greater than the line's UTF-16
\* length utf16_to_byte_index returns the byte length of the line, and a
\* range edit with such a column gives what the same edit gives with the
\* column set to the line's UTF-16 length (same lines, same outcome).
C13_ColumnClamping ==
    BeyondEnd =>
        LET ext == Extended(prev, op.range.end_line)
            r == edit_range(prev, op.range.start_line,
                            Clamped(ext[op.range.start_line + 1].text, op.range.start_col),
                            op.range.end_line,
                            Clamped(ext[op.range.end_line + 1].text, op.range.end_col),
                            op.text)
        IN /\ \A t \in Translated :
                 t[2] > Utf16Width(t[1]) => utf16_to_byte_index(t[1], t[2]) = ByteLen(t[1])
           /\ lines = r.lines
           /\ panicked = ~r.ok

\* C13 witness: a range edit that returned, with its start column beyond
\* the end of a non-empty line: the whole line was kept as the prefix.
C13_Witness ==
    /\ BeyondEnd /\ ~panicked
    /\ op.range.start_line < Len(prev)
    /\ prev[op.range.start_line + 1].text # << >>
    /\ op.range.start_col > Utf16Width(prev[op.range.start_line + 1].text)
    /\ SubSeq(lines[op.range.start_line + 1].text, 1,
              Len(prev[op.range.start_line + 1].text)) = prev[op.range.start_line + 1].text

\* The last call was a full replace
FullReplaced == op.kind = "full"

\* C14: full replace discards history.  After a full-replace edit with text
\* T the lines and get_colors are those of Document::from(T), whatever the
\* document held before (the edit panics exactly when Document::from(T)
\* does); with the empty text, get_colors is empty and to_string is "".
C14_FullReplace ==
    FullReplaced =>
        LET fresh == from_str(op.text)
        IN /\ panicked = ~fresh.ok
           /\ fresh.ok => /\ lines = fresh.lines
                          /\ get_colors(lines) = get_colors(fresh.lines)
           /\ op.text = << >> => /\ get_colors(lines) = << >>
                                 /\ to_string(lines) = << >>

\* C14 witness: a full replace with a text that has a colour, on a document
\* that an earlier edit left with other lines and other colours.
C14_Witness ==
    /\ FullReplaced /\ ~panicked /\ nEdits >= 2
    /\ get_colors(lines) # << >>
    /\ get_colors(prev) # << >>
    /\ get_colors(prev) # get_colors(lines)

\* C14 witness for the empty text: a document with colours was emptied.
C14_WitnessEmpty ==
    /\ FullReplaced /\ op.text = << >>
    /\ get_colors(prev) # << >>
    /\ lines = << >>

\* C16: no terminator inside a line.  In every state reached by load and
\* full and range edits, no line's text contains a line feed or a carriage
\* return.
C16_NoTerminatorInLine ==
    \A i \in 1..Len(lines) :
        \A k \in 1..Len(lines[i].text) : lines[i].text[k] \notin {10, 13}

\* ------------------------------------------------------------------------
\* Properties of reading (specification SpecRead)
\* ------------------------------------------------------------------------
RECURSIVE ColorsAbove(_, _)
\* The number of colours cached on the lines before line i (1-based)
ColorsAbove(ls, i) ==
    IF i <= 1 THEN 0 ELSE ColorsAbove(ls, i - 1) + Len(ls[i - 1].colors)

\* a comes before b in document order
Before(a, b) == a.sl < b.sl \/ (a.sl = b.sl /\ a.sc < b.sc)

\* C17: get_colors is an ordered pure read.  What get_colors returns is the
\* concatenation of the lines' cached colours in line order, increasing in
\* column within a line, each with start.line the index of the line that
\* holds it; after any number of calls the lines and caches are what they
\* were before the first.
C17_OrderedPureRead ==
    got.calls # "none" =>
        /\ lines = got.before
        /\ Len(got.colors) = ColorsAbove(lines, Len(lines) + 1)
        /\ \A i \in 1..Len(lines) :
              \A j \in 1..Len(lines[i].colors) :
                  /\ got.colors[ColorsAbove(lines, i) + j] = lines[i].colors[j]
                  /\ lines[i].colors[j].sl = i - 1
        /\ \A k \in 1..(Len(got.colors) - 1) : Before(got.colors[k], got.colors[k + 1])

\* C17 witness: get_colors called twice on an edited document with colours
\* on two lines and a line without colours.
C17_Witness ==
    /\ got.calls = "again" /\ nEdits >= 1
    /\ \E i \in 1..Len(lines) : lines[i].colors = << >>
    /\ \E i \in 1..Len(lines), j \in 1..Len(lines) :
          i < j /\ lines[i].colors # << >> /\ lines[j].colors # << >>

\* ------------------------------------------------------------------------
\* Properties of loading (specification SpecLoad)
\* ------------------------------------------------------------------------
\* The last call was Document::from and it returned
Loaded == op.kind = "from" /\ ~panicked

\* s and t are equal, or one is the other followed by one line terminator
\* (line feed, carriage return, or carriage return and line feed)
SameUpToTrailingTerminator(s, t) ==
    \/ s = t
    \/ \E term \in { << 10 >>, << 13 >>, << 13, 10 >> } : s = t \o term \/ t = s \o term

RECURSIVE CrlfToLf(_)
\* s with every carriage return + line feed pair replaced by a line feed
CrlfToLf(s) ==
    IF s = << >> THEN << >>
    ELSE IF Len(s) >= 2 /\ s[1] = 13 /\ s[2] = 10
    THEN << 10 >> \o CrlfToLf(SubSeq(s, 3, Len(s)))
    ELSE << s[1] >> \o CrlfToLf(Tail(s))

\* s without its last line feed, if it ends with one
DropLastLf(s) == IF ends_with_lf(s) THEN SubSeq(s, 1, Len(s) - 1) ELSE s

MatchStarts(line) == { p \in 1..Len(line) : line[p] = 35 /\ HexRun(line, p + 1) >= 6 }

\* The digits a match at p consumes: 8 when at least 8 follow, otherwise 6
Consumed(line, p) == IF HexRun(line, p + 1) >= 8 THEN 8 ELSE 6

\* The UTF-16 column of scalar p of line
ColumnOf(line, p) == Utf16Width(SubSeq(line, 1, p - 1))

\* C8: the extractor never errors.  parse_line_colors returns a sequence for
\* every line text and line index.
C8_ParseNeverFails == pres.ok

\* C9: matching rule.  parse_line_colors reports a match at a '#' exactly
\* when at least 6 hexadecimal digits follow it, and the match consumes 8
\* digits when at least 8 follow and 6 otherwise.
C9_MatchingRule ==
    /\ pres.ok
    /\ Len(pres.colors) = Cardinality(MatchStarts(pline))
    /\ \A p \in MatchStarts(pline) :
          \E j \in 1..Len(pres.colors) :
              /\ pres.colors[j].sc = ColumnOf(pline, p)
              /\ pres.colors[j].ec = ColumnOf(pline, p) + 1 + Consumed(pline, p)

\* C10: ranges are UTF-16 columns.  Every colour parse_line_colors returns
\* is on line idx, starts at the UTF-16 column of a '#' of the text and ends
\* 1 + 6 or 1 + 8 columns later, after the digits that follow that '#'.
C10_Utf16Ranges ==
    \A j \in 1..Len(pres.colors) :
        LET c == pres.colors[j]
        IN /\ c.sl = pidx /\ c.el = pidx
           /\ \E p \in 1..Len(pline) :
                 /\ pline[p] = 35
                 /\ c.sc = ColumnOf(pline, p)
                 /\ c.ec - c.sc \in {7, 9}
                 /\ HexRun(pline, p + 1) >= c.ec - c.sc - 1

\* C10 witness: a colour returned for a line index above 0 whose '#' comes
\* after a supplementary-plane scalar, so that its column is not its
\* scalar index.
C10_Witness ==
    /\ pres.ok /\ pidx > 0
    /\ \E j \in 1..Len(pres.colors), p \in 1..Len(pline) :
          /\ pline[p] = 35
          /\ pres.colors[j].sc = ColumnOf(pline, p)
          /\ ColumnOf(pline, p) > p - 1

\* C11: extractor output is ordered and non-overlapping.  Consecutive
\* colours a, b of the sequence parse_line_colors returns satisfy
\* a.end.character <= b.start.character, and each range is non-empty, so
\* the start columns increase strictly.
C11_OrderedNonOverlapping ==
    /\ \A j \in 1..Len(pres.colors) : pres.colors[j].sc < pres.colors[j].ec
    /\ \A j \in 1..(Len(pres.colors) - 1) :
          /\ pres.colors[j].ec <= pres.colors[j + 1].sc
          /\ pres.colors[j].sc < pres.colors[j + 1].sc

\* C11 witness: two colours returned for one line, the second starting at
\* the column where the first ends.
C11_Witness ==
    /\ pres.ok /\ Len(pres.colors) >= 2
    /\ pres.colors[1].ec = pres.colors[2].sc

\* ------------------------------------------------------------------------
\* Properties of the server (specifications SpecServer and SpecConcurrent)
\* ------------------------------------------------------------------------
\* The content after one edit applied as Document::edit computes it: the
\* text of a full replace; for a range replace, the text of the document
\* built from the content and edited
ApplyEdit(content, e) ==
    IF ~e.ranged THEN e.text
    ELSE LET d == from_str(content)
             r == edit_range(d.lines, e.range.start_line, e.range.start_col,
                             e.range.end_line, e.range.end_col, e.text)
         IN to_string(r.lines)

RECURSIVE ApplyEdits(_, _, _)
\* The content after the edits es[k..] applied one at a time, in order
ApplyEdits(content, es, k) ==
    IF k > Len(es) THEN content ELSE ApplyEdits(ApplyEdit(content, es[k]), es, k + 1)

\* C18: the server applies edits in arrival order.  After did_change with
\* the edits e1..en for an open URI, the content held for the URI is the
\* previous content with e1, ..., en applied one at a time, each per its
\* kind.
C18_EditsInArrivalOrder ==
    (last.req.kind = "did_change" /\ last.before.open)
        => /\ last.after.open
           /\ last.after.text = ApplyEdits(last.before.text, last.req.changes, 1)

\* C19: the server's colours are those of the document.  For the content
\* held for an open URI, Backend::document_color returns what
\* Document::from(content).get_colors() returns.
C19_ServerColors ==
    (last.req.kind = "document_color" /\ last.before.open)
        => LET d == from_str(last.before.text)
           IN d.ok /\ last.result = get_colors(d.lines)

\* C20: no torn reads, serialized writes.  Under every interleaving of the
\* handlers, a writer holds the lock alone; the entry a document_color
\* handler works from stays the stored entry of its URI until it returns,
\* and what it returns is computed from that entry; a write handler that
\* returned left exactly its own entry, which is the stored one until the
\* next write takes effect.
C20_NoTornReads ==
    /\ lock.writer # NoTask => lock.readers = {}
    /\ \A t \in Tasks :
          /\ tasks[t].pc = "writing" <=> lock.writer = t
          /\ tasks[t].pc = "reading" <=> t \in lock.readers
          /\ tasks[t].pc = "reading" => tasks[t].seen = documents[tasks[t].req.uri]
    /\ last.req.kind = "document_color"
          => /\ ~last.moved
             /\ last.before = last.after
             /\ last.result = document_color(last.before)
    /\ TakesWrite(last.req)
          => /\ last.after = Written(last.req)
             /\ documents[last.req.uri] = last.after

\* C20 witness: document_color returned colours for a URI while a write to
\* the same URI, received before it returned, had not taken effect.
C20_Witness ==
    /\ last.req.kind = "document_color"
    /\ last.result # << >>
    /\ \E t \in Tasks :
          /\ tasks[t].pc = "called"
          /\ TakesWrite(tasks[t].req)
          /\ tasks[t].req.uri = last.req.uri

\* C20 witness for writes: a write to a URI returned while another write to
\* the same URI is waiting for the lock.
C20_WitnessWrites ==
    /\ TakesWrite(last.req)
    /\ \E t \in Tasks :
          /\ tasks[t].pc = "called"
          /\ TakesWrite(tasks[t].req)
          /\ tasks[t].req.uri = last.req.uri
          /\ Written(tasks[t].req) # last.after


\* C21: document table lifecycle.  The table has an entry for a URI exactly
\* when the URI was opened and not closed since: did_open leaves an entry,
\* did_close leaves none, and did_change leaves an entry only where there
\* was one (a change for a URI that is not open creates no entry).
C21_TableLifecycle ==
    /\ last.req.kind = "did_open" => last.after.open
    /\ last.req.kind = "did_close" => ~last.after.open
    /\ last.req.kind = "did_change" => last.after.open = last.before.open


\* The colours cs with every start.line and end.line replaced by j
OnLine(cs, j) == [k \in 1..Len(cs) |-> [cs[k] EXCEPT !.sl = j, !.el = j]]

\* C22: the line number is a detachable coordinate.  For a line text t and
\* line indices i, j, parse_line_colors(t, j) is parse_line_colors(t, i)
\* with every start.line and end.line replaced by j (the two calls return,
\* or fail, alike); a second call on the same (t, i) gives the same result.
C22_LineDetachable ==
    /\ parse_line_colors(pline, pidx) = pres
    /\ \A j \in 0..MaxIdx :
          LET r == parse_line_colors(pline, j)
          IN /\ r.ok = pres.ok
             /\ r.colors = OnLine(pres.colors, j)

\* C22 witness: two colours returned for a line index above 0, so that the
\* same text at index 0 has them on another line.
C22_Witness ==
    /\ pres.ok /\ pidx > 0
    /\ Len(pres.colors) >= 2
    /\ parse_line_colors(pline, 0).colors # pres.colors


\* The value of the two hexadecimal digits k and k + 1 (1-based) after the
\* '#' at scalar p of line
Pair(line, p, k) == 16 * to_digit(line[p + k]) + to_digit(line[p + k + 1])

\* C23: channel decoding.  For every match, red, green and blue are
\* 16 * hi + lo of the first, second and third pair of digits after the
\* '#', alpha is that of the fourth pair for an 8-digit match and 1.0
\* (255/255) for a 6-digit match, whatever digit follows the sixth; every
\* channel numerator is in 0..255.
C23_ChannelDecoding ==
    \A j \in 1..Len(pres.colors) :
        LET c == pres.colors[j]
            length == c.ec - c.sc - 1
        IN \E p \in 1..Len(pline) :
              /\ pline[p] = 35
              /\ ColumnOf(pline, p) = c.sc
              /\ length \in {6, 8}
              /\ c.color.red = Pair(pline, p, 1)
              /\ c.color.green = Pair(pline, p, 3)
              /\ c.color.blue = Pair(pline, p, 5)
              /\ c.color.alpha = IF length = 8 THEN Pair(pline, p, 7) ELSE 255
              /\ \A v \in {c.color.red, c.color.green, c.color.blue, c.color.alpha} :
                    v \in 0..255

\* C23 witness: a 6-digit match with a seventh hexadecimal digit after it
\* that is not 0, reported with alpha 1.0 and a channel of 255.
C23_Witness ==
    /\ pres.ok
    /\ \E j \in 1..Len(pres.colors), p \in 1..Len(pline) :
          /\ pline[p] = 35
          /\ ColumnOf(pline, p) = pres.colors[j].sc
          /\ HexRun(pline, p + 1) = 7
          /\ to_digit(pline[p + 7]) > 0
          /\ pres.colors[j].color.alpha = 255
          /\ pres.colors[j].color.red = 255


\* Task t's document_color handler returns in this step, having found no
\* entry for its URI
UnknownQueryReturns(t) ==
    /\ tasks[t].pc = "reading"
    /\ ~tasks[t].seen.open
    /\ tasks'[t].pc = "idle"

\* C24: query of an unknown document.  document_color for a URI with no
\* entry in the table returns the empty list and leaves the table as it
\* was: no entry created, no other document changed.
C24_UnknownDocumentQuery ==
    [][\A t \in Tasks :
          UnknownQueryReturns(t)
              => /\ last'.req = tasks[t].req
                 /\ last'.result = << >>
                 /\ documents' = documents
                 /\ ~documents'[tasks[t].req.uri].open]_vars

\* C24 witness: document_color returned for a URI that was opened and
\* closed again, while the other URI has a document with colours.
C24_Witness ==
    /\ last.req.kind = "document_color"
    /\ ~last.before.open /\ ~documents[last.req.uri].open
    /\ last.result = << >>
    /\ \E u \in Uris : u # last.req.uri /\ document_color(documents[u]) # << >>

====
